---- MODULE Spec2Model ----
(***************************************************************************)
(* Model of src/cpuset.rs: the CpuSetController of the cpuset control      *)
(* group subsystem.  The controller owns two paths (base, path) and talks  *)
(* to a directory of pseudo-files.  Pseudo-file contents are sequences of  *)
(* one-character strings; the directory is the pair (content, mode).       *)
(***************************************************************************)
EXTENDS Integers, Sequences, FiniteSets

VARIABLES
    oroot,      \* the argument new() was called with
    base,       \* CpuSetController.base  (sequence of path components)
    path,       \* CpuSetController.path
    content,    \* pseudo-file name -> bytes currently held by the file
    mode,       \* pseudo-file name -> how open/read/write on it behave
    ret,        \* what the latest call did: op, arg, result, syscall log
    old,        \* content as it was when the latest call started
    pending,    \* setter -> argument of its latest successful call, forgotten
                \*           at any later write attempt on its pseudo-file and
                \*           when the controller is pointed at another path
    steps,      \* number of state-changing steps taken so far
    rpc,        \* stepwise query: index of the next field to read (0 = idle)
    snap,       \* stepwise query: the fields decoded so far
    seen,       \* stepwise query: decoded views of the directory since start
    wpc,        \* concurrent apply: "idle", "cpus", "mems" or "done"
    wres        \* concurrent apply: the resources being applied

vars == <<oroot, base, path, content, mode, ret, old, pending, steps,
          rpc, snap, seen, wpc, wres>>

(***************************************************************************)
(* Bounds of the model.                                                    *)
(***************************************************************************)
MaxSteps == 2
MaxApplies == 1

(***************************************************************************)
(* The pseudo-files, in the order cpuset() reads them.                     *)
(***************************************************************************)
FieldOrder ==
    << "cpuset.cpu_exclusive", "cpuset.cpus", "cpuset.effective_cpus",
       "cpuset.effective_mems", "cpuset.mem_exclusive", "cpuset.mem_hardwall",
       "cpuset.memory_migrate", "cpuset.memory_pressure",
       "cpuset.memory_pressure_enabled", "cpuset.memory_spread_page",
       "cpuset.memory_spread_slab", "cpuset.mems", "cpuset.sched_load_balance",
       "cpuset.sched_relax_domain_level" >>

Files == { FieldOrder[i] : i \in 1..Len(FieldOrder) }

BoolFiles ==
    { "cpuset.cpu_exclusive", "cpuset.mem_exclusive", "cpuset.mem_hardwall",
      "cpuset.memory_migrate", "cpuset.memory_spread_page",
      "cpuset.memory_spread_slab", "cpuset.sched_load_balance" }

StringFiles ==
    { "cpuset.cpus", "cpuset.effective_cpus", "cpuset.effective_mems",
      "cpuset.mems" }

U64Files == { "cpuset.memory_pressure", "cpuset.sched_relax_domain_level" }

OptBoolFiles == { "cpuset.memory_pressure_enabled" }

(***************************************************************************)
(* Result<T, CgroupError> and Option<T>.                                   *)
(***************************************************************************)
Ok(v) == [ok |-> TRUE, val |-> v]
Err(e) == [ok |-> FALSE, err |-> e]
None == [some |-> FALSE]
Some(v) == [some |-> TRUE, val |-> v]

UnwrapOr(r, d) == IF r.ok THEN r.val ELSE d
OkOpt(r) == IF r.ok THEN Some(r.val) ELSE None

(***************************************************************************)
(* str::trim, str::parse::<u64> and i64::to_string on character sequences. *)
(***************************************************************************)
Whitespace == { " ", "\n", "\t" }
Digits == { "0", "1", "2", "3", "4", "5", "6", "7", "8", "9" }

DigitVal(c) ==
    CASE c = "0" -> 0 [] c = "1" -> 1 [] c = "2" -> 2 [] c = "3" -> 3
      [] c = "4" -> 4 [] c = "5" -> 5 [] c = "6" -> 6 [] c = "7" -> 7
      [] c = "8" -> 8 [] c = "9" -> 9

DigitChar(d) ==
    CASE d = 0 -> "0" [] d = 1 -> "1" [] d = 2 -> "2" [] d = 3 -> "3"
      [] d = 4 -> "4" [] d = 5 -> "5" [] d = 6 -> "6" [] d = 7 -> "7"
      [] d = 8 -> "8" [] d = 9 -> "9"

RECURSIVE TrimStart(_)
TrimStart(s) ==
    IF s # <<>> /\ Head(s) \in Whitespace THEN TrimStart(Tail(s)) ELSE s

RECURSIVE TrimEnd(_)
TrimEnd(s) ==
    IF s # <<>> /\ s[Len(s)] \in Whitespace
    THEN TrimEnd(SubSeq(s, 1, Len(s) - 1))
    ELSE s

trim(s) == TrimEnd(TrimStart(s))

RECURSIVE DigitsValue(_, _)
DigitsValue(s, acc) ==
    IF s = <<>> THEN acc ELSE DigitsValue(Tail(s), acc * 10 + DigitVal(Head(s)))

\* u64::from_str: an optional leading "+", then one or more ASCII digits.
\* (The contents of the model are too short to overflow 64 bits.)
parse_u64(s) ==
    LET digits == IF s # <<>> /\ Head(s) = "+" THEN Tail(s) ELSE s
    IN  IF digits = <<>> \/ \E i \in 1..Len(digits) : digits[i] \notin Digits
        THEN Err("ParseError")
        ELSE Ok(DigitsValue(digits, 0))

RECURSIVE NatToString(_)
NatToString(n) ==
    IF n < 10 THEN << DigitChar(n) >>
    ELSE NatToString(n \div 10) \o << DigitChar(n % 10) >>

\* variant: the sign is dropped
to_string_unsigned(i) == IF i < 0 THEN NatToString(0 - i) ELSE NatToString(i)

to_string(i) == IF i < 0 THEN << "-" >> \o NatToString(0 - i) ELSE NatToString(i)

(***************************************************************************)
(* The pseudo-file directory.  The tree holds one group directory, the one *)
(* at base; a controller whose path was moved elsewhere finds no files.    *)
(*   ok        every operation on the file succeeds                        *)
(*   noopen    the file cannot be opened (missing, or no permission)       *)
(*   readerr   the file opens, reading it fails, writing works             *)
(*   writeerr  the file opens, the write is rejected, reading works        *)
(***************************************************************************)
Modes == { "ok", "noopen", "readerr", "writeerr" }

SubsystemName == "cpuset"

\* Controller::open_path: the file named p under self.path, for read or write.
open_path(p, w) ==
    IF w
    THEN IF path # base \/ mode[p] = "noopen"
         THEN Err("WriteError") ELSE Ok(p)
    ELSE IF path # base \/ mode[p] = "noopen"
         THEN Err("ReadError") ELSE Ok(p)

\* read_to_string followed by trim
read_string_from(file) ==
    IF mode[file] = "readerr" THEN Err("ReadError") ELSE Ok(trim(content[file]))

\* read_to_string followed by trim and parse
read_u64_from(file) ==
    IF mode[file] = "readerr" THEN Err("ReadError")
    ELSE parse_u64(trim(content[file]))

IsOne(x) == x = 1

\* .and_then(read_u64_from), .and_then(read_string_from), .map(|x| x == 1)
AndThenReadU64(r) == IF r.ok THEN read_u64_from(r.val) ELSE r
AndThenReadString(r) == IF r.ok THEN read_string_from(r.val) ELSE r
MapIsOne(r) == IF r.ok THEN Ok(IsOne(r.val)) ELSE r

(***************************************************************************)
(* cpuset(): the four shapes of field expression, and the struct literal.  *)
(***************************************************************************)
\* variant: a field that cannot be decoded reads as true
bool_field_default_true(p) ==
    UnwrapOr(MapIsOne(AndThenReadU64(open_path(p, FALSE))), TRUE)

bool_field(p) ==
    UnwrapOr(MapIsOne(AndThenReadU64(open_path(p, FALSE))), FALSE)

\* variant: the optional field is defaulted like the other booleans
opt_bool_field_defaulted(p) ==
    Some(UnwrapOr(MapIsOne(AndThenReadU64(open_path(p, FALSE))), FALSE))

opt_bool_field(p) ==
    OkOpt(MapIsOne(AndThenReadU64(open_path(p, FALSE))))

u64_field(p) == UnwrapOr(AndThenReadU64(open_path(p, FALSE)), 0)

string_field(p) == UnwrapOr(AndThenReadString(open_path(p, FALSE)), <<>>)

\* the expression cpuset() evaluates for the field read from pseudo-file p
FieldExpr(p) ==
    CASE p = "cpuset.cpu_exclusive" -> bool_field("cpuset.cpu_exclusive")
      [] p = "cpuset.cpus" -> string_field("cpuset.cpus")
      [] p = "cpuset.effective_cpus" -> string_field("cpuset.effective_cpus")
      [] p = "cpuset.effective_mems" -> string_field("cpuset.effective_mems")
      [] p = "cpuset.mem_exclusive" -> bool_field("cpuset.mem_exclusive")
      [] p = "cpuset.mem_hardwall" -> bool_field("cpuset.mem_hardwall")
      [] p = "cpuset.memory_migrate" -> bool_field("cpuset.memory_migrate")
      [] p = "cpuset.memory_pressure" -> u64_field("cpuset.memory_pressure")
      [] p = "cpuset.memory_pressure_enabled" ->
             opt_bool_field("cpuset.memory_pressure_enabled")
      [] p = "cpuset.memory_spread_page" -> bool_field("cpuset.memory_spread_page")
      [] p = "cpuset.memory_spread_slab" -> bool_field("cpuset.memory_spread_slab")
      [] p = "cpuset.mems" -> string_field("cpuset.mems")
      [] p = "cpuset.sched_load_balance" -> bool_field("cpuset.sched_load_balance")
      [] p = "cpuset.sched_relax_domain_level" ->
             u64_field("cpuset.sched_relax_domain_level")

\* struct CpuSet built from a map  pseudo-file -> decoded value
CpuSet(v) ==
    [ cpu_exclusive |-> v["cpuset.cpu_exclusive"],
      cpus |-> v["cpuset.cpus"],
      effective_cpus |-> v["cpuset.effective_cpus"],
      effective_mems |-> v["cpuset.effective_mems"],
      mem_exclusive |-> v["cpuset.mem_exclusive"],
      mem_hardwall |-> v["cpuset.mem_hardwall"],
      memory_migrate |-> v["cpuset.memory_migrate"],
      memory_pressure |-> v["cpuset.memory_pressure"],
      memory_pressure_enabled |-> v["cpuset.memory_pressure_enabled"],
      memory_spread_page |-> v["cpuset.memory_spread_page"],
      memory_spread_slab |-> v["cpuset.memory_spread_slab"],
      mems |-> v["cpuset.mems"],
      sched_load_balance |-> v["cpuset.sched_load_balance"],
      sched_relax_domain_level |-> v["cpuset.sched_relax_domain_level"] ]

\* the whole query evaluated on the directory as it is now
cpuset_value == CpuSet([p \in Files |-> FieldExpr(p)])

(***************************************************************************)
(* Writing a pseudo-file.  An outcome is the result of the call, the       *)
(* directory contents it leaves and the log of its opens-for-write and     *)
(* write attempts.                                                         *)
(***************************************************************************)
OpenEv(p) == [ev |-> "open", file |-> p]
WriteEv(p, data, ok) == [ev |-> "write", file |-> p, data |-> data, ok |-> ok]

\* what a rejected write can leave in the file: the old bytes (a pseudo-file
\* ignores the truncation) or a proper prefix of the data (a regular file)
FailedWriteLeaves(before, data) ==
    { before } \cup { SubSeq(data, 1, k) : k \in 0..(Len(data) - 1) }

\* file.write_all(data).map_err(CgroupError::WriteError)
\* (the open for writing truncated the file, so a write that succeeds leaves
\* exactly the data in it)
write_all(cont, file, data) ==
    IF mode[file] = "writeerr"
    THEN { [res |-> Err("WriteError"), cont |-> [cont EXCEPT ![file] = c],
            wlog |-> << WriteEv(file, data, FALSE) >>] :
              c \in FailedWriteLeaves(cont[file], data) }
    ELSE { [res |-> Ok("unit"), cont |-> [cont EXCEPT ![file] = data],
            wlog |-> << WriteEv(file, data, TRUE) >>] }

\* variant: a failed open is reported as success
WriteProperty_swallow(cont, p, data) ==
    LET f == open_path(p, TRUE)
    IN  IF f.ok
        THEN { [res |-> o.res, cont |-> o.cont,
                wlog |-> << OpenEv(p) >> \o o.wlog] :
                  o \in write_all(cont, f.val, data) }
        ELSE { [res |-> Ok("unit"), cont |-> cont, wlog |-> << OpenEv(p) >>] }

\* self.open_path(p, true).and_then(|mut file| file.write_all(data)...)
WriteProperty(cont, p, data) ==
    LET f == open_path(p, TRUE)
    IN  IF f.ok
        THEN { [res |-> o.res, cont |-> o.cont,
                wlog |-> << OpenEv(p) >> \o o.wlog] :
                  o \in write_all(cont, f.val, data) }
        ELSE { [res |-> f, cont |-> cont, wlog |-> << OpenEv(p) >>] }

\* variant: a newline is appended
BoolBytesNewline(b) == IF b THEN << "1", "\n" >> ELSE << "0", "\n" >>

BoolBytes(b) == IF b THEN << "1" >> ELSE << "0" >>

(***************************************************************************)
(* Inputs of the calls, and what the environment may put into a file.      *)
(***************************************************************************)
Roots == { << "sys", "fs", "cgroup" >>, << >> }

Levels == { -10, -1, 0, 6, 7 }

CpusIn == << "0", "-", "3", ",", "7" >>
MemsIn == << " ", "7", ",", "0", "\n" >>

RangeStrings == { CpusIn, MemsIn }

ResourcesIn ==
    { [update_values |-> TRUE, cpus |-> CpusIn, mems |-> MemsIn],
      [update_values |-> TRUE, cpus |-> MemsIn, mems |-> CpusIn],
      [update_values |-> FALSE, cpus |-> CpusIn, mems |-> MemsIn] }

PathMutations ==
    { [kind |-> "push", abs |-> FALSE, comps |-> << "g1" >>],
      [kind |-> "push", abs |-> TRUE, comps |-> << "etc" >>],
      [kind |-> "pop", abs |-> FALSE, comps |-> << >>] }

EnvContents(p) ==
    IF p \in StringFiles THEN { << " ", "2", "\n" >> }
    ELSE { << " ", "1", "\n" >>, << "-", "1", "\n" >> }

\* files some operation of the controller opens for writing
WrittenFiles == Files \ { "cpuset.effective_cpus", "cpuset.effective_mems",
                          "cpuset.memory_pressure" }

EnvModes(p) ==
    IF p \in WrittenFiles THEN Modes ELSE { "ok", "noopen", "readerr" }

\* the pseudo-file each setter is documented to write
TargetOf(op) ==
    CASE op = "set_cpu_exclusive" -> "cpuset.cpu_exclusive"
      [] op = "set_mem_exclusive" -> "cpuset.mem_exclusive"
      [] op = "set_hardwall" -> "cpuset.mem_hardwall"
      [] op = "set_load_balancing" -> "cpuset.sched_load_balance"
      [] op = "set_memory_migration" -> "cpuset.memory_migrate"
      [] op = "set_memory_spread_page" -> "cpuset.memory_spread_page"
      [] op = "set_memory_spread_slab" -> "cpuset.memory_spread_slab"
      [] op = "set_enable_memory_pressure" -> "cpuset.memory_pressure_enabled"
      [] op = "set_cpus" -> "cpuset.cpus"
      [] op = "set_mems" -> "cpuset.mems"
      [] op = "set_rebalance_relax_domain_level" ->
             "cpuset.sched_relax_domain_level"

BoolSetters ==
    { "set_cpu_exclusive", "set_mem_exclusive", "set_hardwall",
      "set_load_balancing", "set_memory_migration", "set_memory_spread_page",
      "set_memory_spread_slab", "set_enable_memory_pressure" }

Setters ==
    BoolSetters \cup { "set_cpus", "set_mems", "set_rebalance_relax_domain_level" }

(***************************************************************************)
(* The state after construction.                                           *)
(***************************************************************************)
InitContent ==
    [p \in Files |->
        CASE p \in { "cpuset.cpus", "cpuset.effective_cpus" } ->
                 << "0", "-", "1", "\n" >>
          [] p \in { "cpuset.mems", "cpuset.effective_mems" } -> << "0", "\n" >>
          [] p = "cpuset.sched_load_balance" -> << "1", "\n" >>
          [] p = "cpuset.sched_relax_domain_level" -> << "-", "1", "\n" >>
          [] p = "cpuset.memory_pressure" -> << "1", "2", "\n" >>
          [] OTHER -> << "0", "\n" >>]

NoCall == [op |-> "new", arg |-> "none", res |-> Ok("unit"), wlog |-> << >>]

\* CpuSetController::new(oroot)
new(r) ==
    /\ oroot = r
    /\ base = r \o << SubsystemName >>
    /\ path = r \o << SubsystemName >>

Init ==
    /\ \E r \in Roots : new(r)
    /\ content = InitContent
    /\ mode = [p \in Files |-> "ok"]
    /\ ret = NoCall
    /\ old = InitContent
    /\ pending = [t \in Setters |-> None]
    /\ steps = 0
    /\ rpc = 0
    /\ snap = << >>
    /\ seen = {}
    /\ wpc = "idle"
    /\ wres = [update_values |-> FALSE, cpus |-> << >>, mems |-> << >>]

(***************************************************************************)
(* Calls.                                                                  *)
(***************************************************************************)
QueryVars == <<rpc, snap, seen, wpc, wres>>

WriteAttempts(wlog, p) ==
    { i \in 1..Len(wlog) : wlog[i].ev = "write" /\ wlog[i].file = p }

\* the history kept for the round-trip properties: a successful setter call
\* is remembered; any other write attempt on its pseudo-file forgets it
PendingAfter(op, arg, o) ==
    [s \in Setters |->
        IF s = op /\ o.res.ok THEN Some(arg)
        ELSE IF WriteAttempts(o.wlog, TargetOf(s)) # {} THEN None
        ELSE pending[s]]

\* a call that wrote: commit outcome o
Commit(op, arg, o) ==
    /\ steps < MaxSteps
    /\ steps' = steps + 1
    /\ content' = o.cont
    /\ old' = content
    /\ ret' = [op |-> op, arg |-> arg, res |-> o.res, wlog |-> o.wlog]
    /\ pending' = PendingAfter(op, arg, o)
    /\ UNCHANGED <<oroot, base, path, mode, QueryVars>>

Setter(op, arg, p, data) ==
    \E o \in WriteProperty(content, p, data) :
        Commit(op, arg, o)

set_cpu_exclusive(b) ==
    Setter("set_cpu_exclusive", b, "cpuset.cpu_exclusive", BoolBytes(b))

set_mem_exclusive(b) ==
    Setter("set_mem_exclusive", b, "cpuset.mem_exclusive", BoolBytes(b))

set_cpus_on(cont, cpus) == WriteProperty(cont, "cpuset.cpus", cpus)

set_cpus(cpus) ==
    \E o \in set_cpus_on(content, cpus) :
        Commit("set_cpus", cpus, o)

set_mems_on(cont, mems) == WriteProperty(cont, "cpuset.mems", mems)

set_mems(mems) ==
    \E o \in set_mems_on(content, mems) :
        Commit("set_mems", mems, o)

set_hardwall(b) ==
    Setter("set_hardwall", b, "cpuset.mem_hardwall", BoolBytes(b))

set_load_balancing(b) ==
    Setter("set_load_balancing", b, "cpuset.sched_load_balance", BoolBytes(b))

set_rebalance_relax_domain_level(i) ==
    Setter("set_rebalance_relax_domain_level", i,
           "cpuset.sched_relax_domain_level", to_string(i))

\* variant: the neighbouring pseudo-file is written
set_memory_migration_wrong_file(b) ==
    Setter("set_memory_migration", b, "cpuset.memory_spread_page", BoolBytes(b))

set_memory_migration(b) ==
    Setter("set_memory_migration", b, "cpuset.memory_migrate", BoolBytes(b))

set_memory_spread_page(b) ==
    Setter("set_memory_spread_page", b, "cpuset.memory_spread_page", BoolBytes(b))

set_memory_spread_slab(b) ==
    Setter("set_memory_spread_slab", b, "cpuset.memory_spread_slab", BoolBytes(b))

set_enable_memory_pressure(b) ==
    Setter("set_enable_memory_pressure", b, "cpuset.memory_pressure_enabled",
           BoolBytes(b))

\* variant: a failed set_cpus ends the apply
apply_on_short_circuit(cont, res) ==
    IF res.update_values
    THEN UNION { IF o1.res.ok
                 THEN { [res |-> Ok("unit"), cont |-> o2.cont,
                         wlog |-> o1.wlog \o o2.wlog] :
                           o2 \in set_mems_on(o1.cont, res.mems) }
                 ELSE { [res |-> Ok("unit"), cont |-> o1.cont,
                         wlog |-> o1.wlog] } :
                 o1 \in set_cpus_on(cont, res.cpus) }
    ELSE { [res |-> Ok("unit"), cont |-> cont, wlog |-> << >>] }

\* the outcomes of apply(res): set_cpus then set_mems, both results dropped
apply_on(cont, res) ==
    IF res.update_values
    THEN UNION { { [res |-> Ok("unit"), cont |-> o2.cont,
                    wlog |-> o1.wlog \o o2.wlog] :
                      o2 \in set_mems_on(o1.cont, res.mems) } :
                 o1 \in set_cpus_on(cont, res.cpus) }
    ELSE { [res |-> Ok("unit"), cont |-> cont, wlog |-> << >>] }

apply(res) ==
    \E o \in apply_on(content, res) : Commit("apply", res, o)

\* the query: it reads every pseudo-file and changes none (it is the one
\* call that steps does not count)
cpuset ==
    /\ ret' = [op |-> "cpuset", arg |-> "none", res |-> Ok(cpuset_value),
               wlog |-> << >>]
    /\ old' = content
    /\ UNCHANGED <<oroot, base, path, content, mode, pending, steps, QueryVars>>

\* an accessor handing out a shared reference
Accessor(op, val) ==
    /\ steps < MaxSteps
    /\ steps' = steps + 1
    /\ ret' = [op |-> op, arg |-> "none", res |-> Ok(val), wlog |-> << >>]
    /\ old' = content
    /\ UNCHANGED <<oroot, base, path, content, mode, pending, QueryVars>>

get_path == Accessor("get_path", path)

get_base == Accessor("get_base", base)

\* PathBuf::push and PathBuf::pop on a sequence of components
PathPush(p, m) == IF m.abs THEN m.comps ELSE p \o m.comps
PathPop(p) == IF p = << >> THEN p ELSE SubSeq(p, 1, Len(p) - 1)
Mutate(p, m) == IF m.kind = "push" THEN PathPush(p, m) ELSE PathPop(p)

\* get_path_mut hands out &mut self.path; the caller changes it through m
get_path_mut(m) ==
    /\ steps < MaxSteps
    /\ steps' = steps + 1
    /\ path' = Mutate(path, m)
    /\ ret' = [op |-> "get_path_mut", arg |-> m, res |-> Ok("unit"), wlog |-> << >>]
    /\ old' = content
    /\ pending' = [t \in Setters |-> None]
    /\ UNCHANGED <<oroot, base, content, mode, QueryVars>>

(***************************************************************************)
(* The environment: the kernel, or another actor on the same directory.    *)
(***************************************************************************)
EnvRet(what, p) == [op |-> what, arg |-> p, res |-> Ok("unit"), wlog |-> << >>]

EnvSetMode(p, m) ==
    /\ steps < MaxSteps
    /\ m # mode[p]
    /\ steps' = steps + 1
    /\ mode' = [mode EXCEPT ![p] = m]
    /\ ret' = EnvRet("env_mode", p)
    /\ old' = content
    /\ UNCHANGED <<oroot, base, path, content, pending, QueryVars>>

EnvWrite(p, s) ==
    /\ steps < MaxSteps
    /\ steps' = steps + 1
    /\ content' = [content EXCEPT ![p] = s]
    /\ pending' = [t \in Setters |-> IF TargetOf(t) = p THEN None ELSE pending[t]]
    /\ ret' = EnvRet("env_write", p)
    /\ old' = content
    /\ UNCHANGED <<oroot, base, path, mode, QueryVars>>

Next ==
    \/ \E b \in BOOLEAN : set_cpu_exclusive(b)
    \/ \E b \in BOOLEAN : set_mem_exclusive(b)
    \/ \E s \in RangeStrings : set_cpus(s)
    \/ \E s \in RangeStrings : set_mems(s)
    \/ \E b \in BOOLEAN : set_hardwall(b)
    \/ \E b \in BOOLEAN : set_load_balancing(b)
    \/ \E i \in Levels : set_rebalance_relax_domain_level(i)
    \/ \E b \in BOOLEAN : set_memory_migration(b)
    \/ \E b \in BOOLEAN : set_memory_spread_page(b)
    \/ \E b \in BOOLEAN : set_memory_spread_slab(b)
    \/ \E b \in BOOLEAN : set_enable_memory_pressure(b)
    \/ \E res \in ResourcesIn : apply(res)
    \/ cpuset
    \/ get_path
    \/ get_base
    \/ \E m \in PathMutations : get_path_mut(m)
    \/ \E p \in Files : \E m \in EnvModes(p) : EnvSetMode(p, m)
    \/ \E p \in Files : \E s \in EnvContents(p) : EnvWrite(p, s)

Spec == Init /\ [][Next]_vars

(***************************************************************************)
(* The query field by field, next to another controller instance on the    *)
(* same group that runs apply: each open-read-close of the query and each  *)
(* write of the apply is one step.  seen collects what the whole directory *)
(* decodes to at every instant from the start of the query on.             *)
(***************************************************************************)
NumFields == Len(FieldOrder)

\* variant: the mems field is decoded from the cpus pseudo-file
query_read_shifted(i) == FieldExpr(FieldOrder[IF i = 12 THEN 2 ELSE i])

\* the value the query stores for its i-th field
query_read(i) == FieldExpr(FieldOrder[i])

cpuset_start ==
    /\ rpc = 0
    /\ rpc' = 1
    /\ snap' = << >>
    /\ seen' = { cpuset_value }
    /\ UNCHANGED <<oroot, base, path, content, mode, ret, old, pending, steps,
                   wpc, wres>>

cpuset_field ==
    /\ rpc \in 1..NumFields
    /\ snap' = [p \in DOMAIN snap \cup { FieldOrder[rpc] } |->
                   IF p = FieldOrder[rpc] THEN query_read(rpc) ELSE snap[p]]
    /\ rpc' = rpc + 1
    /\ UNCHANGED <<oroot, base, path, content, mode, ret, old, pending, steps,
                   seen, wpc, wres>>

cpuset_return ==
    /\ rpc = NumFields + 1
    /\ rpc' = 0
    /\ ret' = [op |-> "cpuset", arg |-> "none", res |-> Ok(CpuSet(snap)),
               wlog |-> << >>]
    /\ UNCHANGED <<oroot, base, path, content, mode, old, pending, steps,
                   snap, seen, wpc, wres>>

\* the other instance enters apply(res)
other_apply(res) ==
    /\ wpc = "idle"
    /\ steps < MaxApplies
    /\ steps' = steps + 1
    /\ wres' = res
    /\ wpc' = IF res.update_values THEN "cpus" ELSE "idle"
    /\ UNCHANGED <<oroot, base, path, content, mode, ret, old, pending,
                   rpc, snap, seen>>

\* one write of the other instance, seen by a query in progress
OtherWrite(o) ==
    /\ content' = o.cont
    /\ UNCHANGED <<oroot, base, path, mode, ret, old, pending, steps,
                   rpc, snap, wres>>
    /\ seen' = IF rpc > 0 THEN seen \cup { cpuset_value' } ELSE seen

other_set_cpus ==
    /\ wpc = "cpus"
    /\ wpc' = "mems"
    /\ \E o \in set_cpus_on(content, wres.cpus) : OtherWrite(o)

other_set_mems ==
    /\ wpc = "mems"
    /\ wpc' = "idle"
    /\ \E o \in set_mems_on(content, wres.mems) : OtherWrite(o)

NextConc ==
    \/ cpuset_start
    \/ cpuset_field
    \/ cpuset_return
    \/ \E res \in ResourcesIn : other_apply(res)
    \/ other_set_cpus
    \/ other_set_mems

SpecConc == Init /\ [][NextConc]_vars

(***************************************************************************)
(* Properties.                                                             *)
(***************************************************************************)
\* the field of CpuSet documented for each pseudo-file
FieldOf(p) ==
    CASE p = "cpuset.cpu_exclusive" -> "cpu_exclusive"
      [] p = "cpuset.cpus" -> "cpus"
      [] p = "cpuset.effective_cpus" -> "effective_cpus"
      [] p = "cpuset.effective_mems" -> "effective_mems"
      [] p = "cpuset.mem_exclusive" -> "mem_exclusive"
      [] p = "cpuset.mem_hardwall" -> "mem_hardwall"
      [] p = "cpuset.memory_migrate" -> "memory_migrate"
      [] p = "cpuset.memory_pressure" -> "memory_pressure"
      [] p = "cpuset.memory_pressure_enabled" -> "memory_pressure_enabled"
      [] p = "cpuset.memory_spread_page" -> "memory_spread_page"
      [] p = "cpuset.memory_spread_slab" -> "memory_spread_slab"
      [] p = "cpuset.mems" -> "mems"
      [] p = "cpuset.sched_load_balance" -> "sched_load_balance"
      [] p = "cpuset.sched_relax_domain_level" -> "sched_relax_domain_level"

\* the query can open and read pseudo-file p
Readable(p) == path = base /\ mode[p] \notin { "noopen", "readerr" }

\* the open for writing of pseudo-file p succeeds
Openable(p) == path = base /\ mode[p] # "noopen"

Parsed(p) == parse_u64(trim(content[p]))

Returned == ret.res.val

IsPrefix(a, b) == Len(a) <= Len(b) /\ SubSeq(b, 1, Len(a)) = a

\* C1: a boolean setter that succeeds leaves exactly "1" (true) or "0"
\* (false), without a newline, in its own pseudo-file, by one write of
\* exactly that byte.
C1_BoolSetterWrites ==
    (ret.op \in BoolSetters /\ ret.res.ok) =>
        LET t == TargetOf(ret.op)
            bytes == IF ret.arg THEN << "1" >> ELSE << "0" >>
        IN  /\ content[t] = bytes
            /\ ret.wlog = << OpenEv(t), WriteEv(t, bytes, TRUE) >>

C1_Witness ==
    /\ ret.op = "set_enable_memory_pressure"
    /\ ret.res.ok
    /\ ret.arg = FALSE
    /\ old["cpuset.memory_pressure_enabled"] = << " ", "1", "\n" >>
    /\ content["cpuset.memory_pressure_enabled"] = << "0" >>

\* C2: the query always returns a CpuSet; a boolean field whose file cannot
\* be opened, read or parsed is false, an unsigned one 0, a string one empty,
\* and every other field carries the value decoded from its own file.
C2_SnapshotDefaults ==
    ret.op = "cpuset" =>
        /\ ret.res.ok
        /\ \A p \in BoolFiles :
              Returned[FieldOf(p)] =
                 (Readable(p) /\ Parsed(p).ok /\ Parsed(p).val = 1)
        /\ \A p \in U64Files :
              Returned[FieldOf(p)] =
                 (IF Readable(p) /\ Parsed(p).ok THEN Parsed(p).val ELSE 0)
        /\ \A p \in StringFiles :
              Returned[FieldOf(p)] =
                 (IF Readable(p) THEN trim(content[p]) ELSE << >>)
        /\ \A p \in OptBoolFiles :
              Returned[FieldOf(p)] \in { None, Some(TRUE), Some(FALSE) }

C2_Witness ==
    /\ ret.op = "cpuset"
    /\ mode["cpuset.cpu_exclusive"] = "noopen"
    /\ mode["cpuset.cpus"] = "readerr"
    /\ Returned.cpu_exclusive = FALSE
    /\ Returned.cpus = << >>
    /\ Returned.sched_load_balance = TRUE
    /\ Returned.memory_pressure = 12
    /\ Returned.mems = << "0" >>

\* C3: memory_pressure_enabled is None when its file cannot be opened, read
\* or parsed (never Some(false) then), Some(true) when the trimmed content
\* parses to 1 and Some(false) when it parses to another unsigned value.
C3_PressureEnabledOptional ==
    ret.op = "cpuset" =>
        LET p == "cpuset.memory_pressure_enabled"
            v == Returned.memory_pressure_enabled
        IN  IF Readable(p) /\ Parsed(p).ok
            THEN v = Some(Parsed(p).val = 1)
            ELSE v = None

C3_Witness ==
    /\ ret.op = "cpuset"
    /\ mode["cpuset.memory_pressure_enabled"] = "noopen"
    /\ mode["cpuset.mem_exclusive"] = "noopen"
    /\ Returned.memory_pressure_enabled = None
    /\ Returned.mem_exclusive = FALSE

\* the value the round trip expects in the field paired with setter s
Expected(s) ==
    IF s = "set_enable_memory_pressure" THEN Some(pending[s].val)
    ELSE pending[s].val

\* C4 (as stated): after a successful boolean setter and no other write to
\* its pseudo-file, the next query returns the value set.
C4_RoundTrip ==
    ret.op = "cpuset" =>
        \A s \in BoolSetters :
            pending[s].some => Returned[FieldOf(TargetOf(s))] = Expected(s)

\* C4 (amended): after a successful boolean setter and no other write to its
\* pseudo-file, a query that opens and reads that same pseudo-file
\* successfully returns the value set.
C4_RoundTripReadable ==
    ret.op = "cpuset" =>
        \A s \in BoolSetters :
            (pending[s].some /\ Readable(TargetOf(s))) =>
                Returned[FieldOf(TargetOf(s))] = Expected(s)

C4_Witness ==
    /\ ret.op = "cpuset"
    /\ pending["set_memory_migration"] = Some(TRUE)
    /\ pending["set_enable_memory_pressure"] = Some(FALSE)
    /\ Returned.memory_migrate = TRUE
    /\ Returned.memory_pressure_enabled = Some(FALSE)

\* the decimal text of the levels the model passes in
DecimalText(i) ==
    CASE i = -10 -> << "-", "1", "0" >>
      [] i = -1 -> << "-", "1" >>
      [] i = 0 -> << "0" >>
      [] i = 6 -> << "6" >>
      [] i = 7 -> << "7" >>

\* C5: set_cpus and set_mems write the caller's string unchanged, and
\* set_rebalance_relax_domain_level writes the decimal text of any integer;
\* none of them fails unless the open or the write fails.
C5_Forwarding ==
    /\ (ret.op \in { "set_cpus", "set_mems" } /\ ret.res.ok) =>
          /\ content[TargetOf(ret.op)] = ret.arg
          /\ ret.wlog = << OpenEv(TargetOf(ret.op)),
                           WriteEv(TargetOf(ret.op), ret.arg, TRUE) >>
    /\ (ret.op = "set_rebalance_relax_domain_level" /\ ret.res.ok) =>
          /\ content["cpuset.sched_relax_domain_level"] = DecimalText(ret.arg)
          /\ ret.wlog = << OpenEv("cpuset.sched_relax_domain_level"),
                           WriteEv("cpuset.sched_relax_domain_level",
                                   DecimalText(ret.arg), TRUE) >>
    /\ (/\ ret.op \in { "set_cpus", "set_mems",
                        "set_rebalance_relax_domain_level" }
        /\ Openable(TargetOf(ret.op))
        /\ mode[TargetOf(ret.op)] # "writeerr") => ret.res.ok

C5_Witness ==
    /\ ret.op = "set_rebalance_relax_domain_level"
    /\ ret.arg = -10
    /\ ret.res.ok
    /\ content["cpuset.sched_relax_domain_level"] = << "-", "1", "0" >>
    /\ content["cpuset.mems"] = MemsIn

WriteOk(wlog, p) == \E i \in WriteAttempts(wlog, p) : wlog[i].ok

\* C6: apply with update_values attempts the write of mems whatever became
\* of the write of cpus, returns normally, and leaves the requested mems in
\* cpuset.mems when cpus failed and mems succeeded; without update_values
\* it writes nothing.
C6_ApplyIndependent ==
    ret.op = "apply" =>
        /\ ret.res.ok
        /\ ret.arg.update_values =>
              /\ \E i \in 1..Len(ret.wlog) : ret.wlog[i] = OpenEv("cpuset.cpus")
              /\ \E i \in 1..Len(ret.wlog) : ret.wlog[i] = OpenEv("cpuset.mems")
              /\ Openable("cpuset.mems") =>
                    WriteAttempts(ret.wlog, "cpuset.mems") # {}
              /\ (~WriteOk(ret.wlog, "cpuset.cpus")
                    /\ WriteOk(ret.wlog, "cpuset.mems")) =>
                    content["cpuset.mems"] = ret.arg.mems
        /\ ~ret.arg.update_values => (ret.wlog = << >> /\ content = old)

C6_Witness ==
    /\ ret.op = "apply"
    /\ ret.arg.update_values
    /\ mode["cpuset.cpus"] = "writeerr"
    /\ ~WriteOk(ret.wlog, "cpuset.cpus")
    /\ WriteOk(ret.wlog, "cpuset.mems")
    /\ content["cpuset.mems"] = ret.arg.mems
    /\ content["cpuset.cpus"] # ret.arg.cpus

QueryReturned == rpc = 0 /\ ret.op = "cpuset"

\* C7 (as stated): at some single instant between the start and the return
\* of a query the directory decoded to exactly the returned snapshot.
C7_PointInTime == QueryReturned => Returned \in seen

\* C7 (amended): every field of the returned snapshot is what its own
\* pseudo-file decoded to at some instant between the start and the return
\* of the query, not necessarily the same instant for all fields.
C7_PerFieldInstant ==
    QueryReturned =>
        \A k \in DOMAIN Returned : \E v \in seen : v[k] = Returned[k]

C7_Witness ==
    /\ QueryReturned
    /\ wres.update_values
    /\ Returned.cpus = << "0", "-", "1" >>
    /\ Returned.mems = trim(wres.mems)
    /\ Cardinality(seen) = 3

\* C8: base stays the root joined with the subsystem name, and path stays
\* base or a descendant of base.
C8_PathUnderBase ==
    /\ base = oroot \o << "cpuset" >>
    /\ IsPrefix(base, path)

\* C9: after a successful set_rebalance_relax_domain_level(i) with i in
\* -1..6 and no other write to the pseudo-file, the next query returns i.
C9_LevelRoundTrip ==
    ret.op = "cpuset" =>
        LET s == "set_rebalance_relax_domain_level"
        IN  (pending[s].some /\ pending[s].val \in -1..6) =>
                Returned.sched_relax_domain_level = pending[s].val

\* C10: a setter call opens its own pseudo-file once and writes at most
\* once; it leaves every other pseudo-file as it was, and when the open
\* fails it leaves its own pseudo-file as it was and returns an error.
C10_SetterFrame ==
    ret.op \in Setters =>
        LET t == TargetOf(ret.op)
        IN  /\ \A p \in Files \ { t } : content[p] = old[p]
            /\ Len(ret.wlog) \in 1..2
            /\ ret.wlog[1] = OpenEv(t)
            /\ Len(ret.wlog) = 2 =>
                  (ret.wlog[2].ev = "write" /\ ret.wlog[2].file = t)
            /\ ~Openable(t) => (content[t] = old[t] /\ ~ret.res.ok)

C10_Witness ==
    /\ ret.op = "set_hardwall"
    /\ mode["cpuset.mem_hardwall"] = "noopen"
    /\ ~ret.res.ok
    /\ content = old

====
